---- MODULE Spec2Model ----
(***************************************************************************)
(* The transport stack of src/GENERATOR/riden.py: TTransportBase.readAll,  *)
(* TBufferedTransport, TFramedTransport and TSaslClientTransport, each      *)
(* wrapping an inner transport.                                             *)
(*                                                                          *)
(* A transport object is a record.  The inner transport is a raw byte       *)
(* channel (kind "raw"); a wrapper holds it in its field trans, as the      *)
(* classes hold self.__trans / self.transport.  Every method is an          *)
(* operator from the object (and the arguments) to a record                 *)
(*     [t |-> the object afterwards, ret |-> the value returned,            *)
(*      err |-> "none" or the exception raised]                             *)
(* so that an exception leaves the object as the code left it at the raise. *)
(* Byte strings are sequences of integers 0..255.                           *)
(***************************************************************************)
EXTENDS Integers, Sequences, FiniteSets, TLC

VARIABLES
    kind,   \* the class of the transport under test
    wbuf,   \* self.__wbuf: the bytes held by the write buffer
    rbuf,   \* self.__rbuf: the contents of the read buffer
    rpos,   \* the read position inside self.__rbuf
    data,   \* inner transport: the bytes its read calls will deliver
    log,    \* inner transport: the calls made on it, in order
    rbuf_size, \* TBufferedTransport: self.__rbuf_size
    sasl,   \* the authentication capability (self.sasl)
    res,    \* the last call made on the transport under test, and how it ended
    hist    \* what the caller has seen so far (per specification)

vars == <<kind, wbuf, rbuf, rpos, data, log, rbuf_size, sasl, res, hist>>

(***************************************************************************)
(* Bounds of the model.                                                     *)
(***************************************************************************)
MaxData == 3      \* longest byte string a peer offers in one piece
MaxSz == 3        \* largest size asked of read / readAll / refill
MaxOps == 4       \* calls made on the transport in one behaviour
MaxFrames == 2    \* frames a peer puts on the channel in one behaviour
MaxMsgs == 3      \* handshake messages the peer sends in one behaviour
MaxSaslCalls == 2 \* calls made on a Security-Negotiated transport in one behaviour
MaxSched == 2     \* scheduled short reads before the inner transport's behaviour settles
MaxChunk == 2     \* most bytes a scheduled short read of the inner transport has ready

\* payload bytes written by the caller
PayloadBytes == {1, 2}

(***************************************************************************)
(* Sequences.                                                               *)
(***************************************************************************)
Min(a, b) == IF a < b THEN a ELSE b
Max(a, b) == IF a > b THEN a ELSE b

Take(s, n) == SubSeq(s, 1, Min(Max(n, 0), Len(s)))
Drop(s, n) == SubSeq(s, Min(Max(n, 0), Len(s)) + 1, Len(s))

RECURSIVE SeqsUpTo(_, _)
SeqsUpTo(S, n) ==
    IF n = 0 THEN {<<>>}
    ELSE LET shorter == SeqsUpTo(S, n - 1)
         IN  shorter \cup {Append(s, x) : s \in {q \in shorter : Len(q) = n - 1}, x \in S}

RECURSIVE Concat(_)
Concat(ss) == IF ss = <<>> THEN <<>> ELSE Head(ss) \o Concat(Tail(ss))

RECURSIVE SumLen(_)
SumLen(ss) == IF ss = <<>> THEN 0 ELSE Len(Head(ss)) + SumLen(Tail(ss))

(***************************************************************************)
(* struct.pack / struct.unpack.                                             *)
(***************************************************************************)
\* pack("!i", n): four bytes, big-endian, two's complement
pack_i(n) ==
    << (n \div 16777216) % 256, (n \div 65536) % 256, (n \div 256) % 256, n % 256 >>

\* unpack("!i", b): signed
unpack_i(b) ==
    (IF b[1] >= 128 THEN b[1] - 256 ELSE b[1]) * 16777216
        + b[2] * 65536 + b[3] * 256 + b[4]

\* pack(">BI", status, n): one byte, then four bytes big-endian unsigned
pack_BI(status, n) ==
    << status % 256,
       (n \div 16777216) % 256, (n \div 65536) % 256, (n \div 256) % 256, n % 256 >>

\* unpack(">BI", b): the model's integers are 32-bit signed, so a length of
\* 2^31 or more is outside it (the peers of the model send short payloads)
unpack_BI(b) ==
    << b[1], b[2] * 16777216 + b[3] * 65536 + b[4] * 256 + b[5] >>

(***************************************************************************)
(* Results of a call.                                                       *)
(***************************************************************************)
Ok(t, ret) == [t |-> t, ret |-> ret, err |-> "none"]
Raise(t, e) == [t |-> t, ret |-> <<>>, err |-> e]

(***************************************************************************)
(* The inner transport: a raw byte channel.  read(sz) returns between 0    *)
(* and sz of the bytes it holds: as many as the head of the schedule sched  *)
(* allows (a short read), the last entry of the schedule standing for all   *)
(* later reads, and all it can when the schedule is empty.  Every call is   *)
(* recorded in log.  With loop set, what is written can be read     *)
(* back (the peer's end of the same channel).  fail names the call that     *)
(* raises: the inner write, the inner flush, or the capability's wrap.      *)
(***************************************************************************)
RawRead(t, sz) ==
    LET cap == IF t.sched = <<>> THEN sz ELSE Head(t.sched)
        n == Min(Min(sz, cap), Len(t.data))
        got == Take(t.data, n)
    IN  Ok([t EXCEPT !.data = Drop(t.data, n),
                     !.sched = IF Len(t.sched) > 1 THEN Tail(t.sched) ELSE t.sched,
                     !.log = Append(t.log, [op |-> "read", req |-> sz, buf |-> got])],
           got)

RawWrite(t, buf) ==
    IF t.fail = "write" THEN Raise(t, "IOError")
    ELSE Ok([t EXCEPT !.log = Append(t.log, [op |-> "write", req |-> Len(buf), buf |-> buf]),
                      !.data = IF t.loop THEN t.data \o buf ELSE t.data],
            <<>>)

RawFlush(t) ==
    IF t.fail = "flush" THEN Raise(t, "IOError")
    ELSE Ok([t EXCEPT !.log = Append(t.log, [op |-> "flush", req |-> 0, buf |-> <<>>])], <<>>)

(***************************************************************************)
(* BufferIO (io.BytesIO).  The read buffer is the pair rbuf, rpos; the     *)
(* write buffer is only ever appended to and read whole.                    *)
(***************************************************************************)
\* a byte string, as opposed to an object BytesIO.write rejects
IsBytes(buf) == \A i \in 1..Len(buf) : buf[i] \in 0..255

\* a buffer read that leaves the position where it was
BufferIO_read_stays(t, sz) == Ok(t, Take(Drop(t.rbuf, t.rpos), sz))

\* self.__rbuf.read(sz): up to sz bytes from the position, which moves on
BufferIO_read(t, sz) ==
    LET got == Take(Drop(t.rbuf, t.rpos), sz)
    IN  Ok([t EXCEPT !.rpos = t.rpos + Len(got)], got)

\* self.__rbuf = BufferIO(value)
BufferIO_new(t, value) == [t EXCEPT !.rbuf = value, !.rpos = 0]

\* self.__wbuf.write(buf)
BufferIO_write(t, buf) ==
    IF IsBytes(buf) THEN Ok([t EXCEPT !.wbuf = t.wbuf \o buf], <<>>)
    ELSE Raise(t, "TypeError")

(***************************************************************************)
(* The authentication capability (puresasl's SASLClient), seen through the  *)
(* calls the transport makes on it.  It reports complete once it has        *)
(* processed need challenges; process and wrap change the bytes they are    *)
(* given, and unwrap undoes wrap.                                           *)
(***************************************************************************)
sasl_mechanism == <<80>>
sasl_initial == <<99>>
sasl_complete(t) == t.sasl.steps >= t.sasl.need
\* self.sasl.process() / self.sasl.process(challenge)
sasl_process(challenge) == <<100 + Len(challenge)>> \o challenge
sasl_step(t) == [t EXCEPT !.sasl.steps = Min(t.sasl.steps + 1, t.sasl.need)]
sasl_wrap(buf) == <<77>> \o [i \in 1..Len(buf) |-> 255 - buf[i]]
sasl_unwrap(buf) == [i \in 1..(Len(buf) - 1) |-> 255 - buf[i + 1]]

(***************************************************************************)
(* The methods.  read, write, flush and cstringio_refill dispatch on the    *)
(* object's class, as a method call does; readAll is the one TTransportBase *)
(* defines.  Try(r, F) is "the call r, then F of its result": an exception  *)
(* raised by r propagates and F is not reached.  OnInner(t, r) is the call  *)
(* r made on t's inner transport, seen from t.                              *)
(***************************************************************************)
Try(r, F(_)) ==
    CHOOSE y \in {IF x.err # "none" THEN x ELSE F(x) : x \in {r}} : TRUE

\* Catch(r, H) is "try: r; except Exception as e: H"
Catch(r, H(_)) ==
    CHOOSE y \in {IF x.err # "none" THEN H(x) ELSE x : x \in {r}} : TRUE

OnInner(t, r) ==
    CHOOSE y \in {[t |-> [t EXCEPT !.trans = x.t], ret |-> x.ret, err |-> x.err] : x \in {r}} :
        TRUE

RECURSIVE read(_, _), readAll(_, _), readAllLoop(_, _, _, _)

\* readAllLoop asking read for sz bytes on every turn, not for sz - have
RECURSIVE readAllLoop_asksAll(_, _, _, _)
readAllLoop_asksAll(t, sz, buff, have) ==
    IF have < sz
    THEN Try(read(t, sz), LAMBDA r :
             IF Len(r.ret) = 0 THEN Raise(r.t, "EOFError")
             ELSE readAllLoop_asksAll(r.t, sz, buff \o r.ret, have + Len(r.ret)))
    ELSE Ok(t, buff)

\* TTransportBase.readAll: one turn of `while (have < sz)` and what follows
readAllLoop(t, sz, buff, have) ==
    IF have < sz
    THEN Try(read(t, sz - have), LAMBDA r :
             IF Len(r.ret) = 0 THEN Raise(r.t, "EOFError")
             ELSE readAllLoop(r.t, sz, buff \o r.ret, have + Len(r.ret)))
    ELSE Ok(t, buff)

readAll(t, sz) == readAllLoop(t, sz, <<>>, 0)

\* TBufferedTransport.read
TBufferedTransport_read(t, sz) ==
    Try(BufferIO_read(t, sz), LAMBDA first :
        IF Len(first.ret) # 0 THEN first
        ELSE Try(OnInner(first.t, read(first.t.trans, Max(sz, first.t.rbuf_size))),
                 LAMBDA r : BufferIO_read(BufferIO_new(r.t, r.ret), sz)))

\* a write that leaves the write buffer as it is when the append raises
TBufferedTransport_write_keeps(t, buf) == BufferIO_write(t, buf)

\* TBufferedTransport.write
TBufferedTransport_write(t, buf) ==
    Catch(BufferIO_write(t, buf), LAMBDA e : Raise([e.t EXCEPT !.wbuf = <<>>], e.err))

\* the inner write, then the inner flush, of every flush method
InnerWriteFlush(t, out) ==
    Try(OnInner(t, RawWrite(t.trans, out)), LAMBDA w :
        OnInner(w.t, RawFlush(w.t.trans)))

\* a flush that sends the write buffer and forgets to empty it
TBufferedTransport_flush_keeps(t) == InnerWriteFlush(t, t.wbuf)

\* TBufferedTransport.flush
TBufferedTransport_flush(t) == InnerWriteFlush([t EXCEPT !.wbuf = <<>>], t.wbuf)

\* TBufferedTransport.cstringio_refill
TBufferedTransport_cstringio_refill(t, partialread, reqlen) ==
    Try(IF reqlen < t.rbuf_size THEN OnInner(t, read(t.trans, t.rbuf_size)) ELSE Ok(t, <<>>),
        LAMBDA r1 :
            IF Len(partialread \o r1.ret) < reqlen
            THEN Try(OnInner(r1.t, readAll(r1.t.trans, reqlen - Len(partialread \o r1.ret))),
                     LAMBDA r2 :
                         Ok(BufferIO_new(r2.t, partialread \o r1.ret \o r2.ret),
                            partialread \o r1.ret \o r2.ret))
            ELSE Ok(BufferIO_new(r1.t, partialread \o r1.ret), partialread \o r1.ret))

\* a readFrame that takes a frame of length 0 for the end of the stream
TFramedTransport_readFrame_zeroEof(t) ==
    Try(OnInner(t, readAll(t.trans, 4)), LAMBDA h :
        IF unpack_i(h.ret) = 0 THEN Raise(h.t, "EOFError")
        ELSE Try(OnInner(h.t, readAll(h.t.trans, unpack_i(h.ret))), LAMBDA b :
                 Ok(BufferIO_new(b.t, b.ret), <<>>)))

\* a readFrame that asks the inner transport for the payload in a single read
TFramedTransport_readFrame_singleRead(t) ==
    Try(OnInner(t, readAll(t.trans, 4)), LAMBDA h :
        Try(OnInner(h.t, read(h.t.trans, unpack_i(h.ret))), LAMBDA b :
            Ok(BufferIO_new(b.t, b.ret), <<>>)))

\* TFramedTransport.readFrame
TFramedTransport_readFrame(t) ==
    Try(OnInner(t, readAll(t.trans, 4)), LAMBDA h :
        Try(OnInner(h.t, readAll(h.t.trans, unpack_i(h.ret))), LAMBDA b :
            Ok(BufferIO_new(b.t, b.ret), <<>>)))

\* a read that passes over frames of length 0
RECURSIVE TFramedTransport_read_skipsEmpty(_, _)
TFramedTransport_read_skipsEmpty(t, sz) ==
    Try(BufferIO_read(t, sz), LAMBDA first :
        IF Len(first.ret) # 0 \/ sz = 0 THEN first
        ELSE Try(TFramedTransport_readFrame(first.t), LAMBDA f :
                 TFramedTransport_read_skipsEmpty(f.t, sz)))

\* TFramedTransport.read
TFramedTransport_read(t, sz) ==
    Try(BufferIO_read(t, sz), LAMBDA first :
        IF Len(first.ret) # 0 THEN first
        ELSE Try(TFramedTransport_readFrame(first.t), LAMBDA f :
                 BufferIO_read(f.t, sz)))

\* TFramedTransport.write
TFramedTransport_write(t, buf) == BufferIO_write(t, buf)

\* a flush that sends the frame and forgets to empty the write buffer
TFramedTransport_flush_keeps(t) == InnerWriteFlush(t, pack_i(Len(t.wbuf)) \o t.wbuf)

\* TFramedTransport.flush
TFramedTransport_flush(t) ==
    InnerWriteFlush([t EXCEPT !.wbuf = <<>>], pack_i(Len(t.wbuf)) \o t.wbuf)

\* a refill that reads one frame where the code loops
TFramedTransport_cstringio_refill_once(t, prefix, reqlen) ==
    IF Len(prefix) < reqlen
    THEN Try(TFramedTransport_readFrame(t), LAMBDA f :
             Ok(BufferIO_new(f.t, prefix \o f.t.rbuf), prefix \o f.t.rbuf))
    ELSE Ok(BufferIO_new(t, prefix), prefix)

\* TFramedTransport.cstringio_refill: one turn of `while len(prefix) < reqlen`
RECURSIVE TFramedTransport_cstringio_refill(_, _, _)
TFramedTransport_cstringio_refill(t, prefix, reqlen) ==
    IF Len(prefix) < reqlen
    THEN Try(TFramedTransport_readFrame(t), LAMBDA f :
             TFramedTransport_cstringio_refill(f.t, prefix \o f.t.rbuf, reqlen))
    ELSE Ok(BufferIO_new(t, prefix), prefix)

\* TSaslClientTransport status bytes
START == 1
OK == 2
BAD == 3
ERROR == 4
COMPLETE == 5

\* TSaslClientTransport.send_sasl_msg
TSaslClientTransport_send_sasl_msg(t, status, body) ==
    InnerWriteFlush(t, pack_BI(status, Len(body)) \o body)

\* TSaslClientTransport.recv_sasl_msg: returns <<status, payload>>
TSaslClientTransport_recv_sasl_msg(t) ==
    Try(OnInner(t, readAll(t.trans, 5)), LAMBDA h :
        IF unpack_BI(h.ret)[2] > 0
        THEN Try(OnInner(h.t, readAll(h.t.trans, unpack_BI(h.ret)[2])), LAMBDA b :
                 Ok(b.t, <<unpack_BI(h.ret)[1], b.ret>>))
        ELSE Ok(h.t, <<unpack_BI(h.ret)[1], <<>> >>))

\* an open loop that takes the server's word for COMPLETE
RECURSIVE TSaslClientTransport_openLoop_trusts(_)
TSaslClientTransport_openLoop_trusts(t) ==
    Try(TSaslClientTransport_recv_sasl_msg(t), LAMBDA m :
        IF m.ret[1] = OK
        THEN Try(TSaslClientTransport_send_sasl_msg(
                     sasl_step(m.t), OK, sasl_process(m.ret[2])),
                 LAMBDA s : TSaslClientTransport_openLoop_trusts(s.t))
        ELSE IF m.ret[1] = COMPLETE THEN Ok(m.t, <<>>)
        ELSE Raise(m.t, "NOT_OPEN"))

\* a turn of the loop that answers whatever status it receives
TSaslClientTransport_openTurn_answersAll(t) ==
    Try(TSaslClientTransport_recv_sasl_msg(t), LAMBDA m :
        Try(TSaslClientTransport_send_sasl_msg(
                sasl_step(m.t), OK, sasl_process(m.ret[2])),
            LAMBDA s : Ok(s.t, <<"again">>)))

\* TSaslClientTransport.open: one turn of `while True`; m.ret is
\* <<status, challenge>>; the turn ends in another turn, a break or a raise
TSaslClientTransport_openTurn(t) ==
    Try(TSaslClientTransport_recv_sasl_msg(t), LAMBDA m :
        IF m.ret[1] = OK
        THEN Try(TSaslClientTransport_send_sasl_msg(
                     sasl_step(m.t), OK, sasl_process(m.ret[2])),
                 LAMBDA s : Ok(s.t, <<"again">>))
        ELSE IF m.ret[1] = COMPLETE
        THEN IF ~sasl_complete(m.t) THEN Raise(m.t, "NOT_OPEN")
             ELSE Ok(m.t, <<"break">>)
        ELSE Raise(m.t, "NOT_OPEN"))

\* TSaslClientTransport.open: the loop `while True`
RECURSIVE TSaslClientTransport_openLoop(_)
TSaslClientTransport_openLoop(t) ==
    Try(TSaslClientTransport_openTurn(t), LAMBDA r :
        IF r.ret = <<"again">> THEN TSaslClientTransport_openLoop(r.t) ELSE Ok(r.t, <<>>))

\* an open that sends its initial token before it names the mechanism
TSaslClientTransport_open_tokenFirst(t) ==
    Try(TSaslClientTransport_send_sasl_msg(t, OK, sasl_initial), LAMBDA s1 :
        Try(TSaslClientTransport_send_sasl_msg(s1.t, START, sasl_mechanism), LAMBDA s2 :
            TSaslClientTransport_openLoop(s2.t)))

\* TSaslClientTransport.open
TSaslClientTransport_open(t) ==
    Try(TSaslClientTransport_send_sasl_msg(t, START, sasl_mechanism), LAMBDA s1 :
        Try(TSaslClientTransport_send_sasl_msg(s1.t, OK, sasl_initial), LAMBDA s2 :
            TSaslClientTransport_openLoop(s2.t)))

\* TSaslClientTransport.write
TSaslClientTransport_write(t, buf) == BufferIO_write(t, buf)

\* self.sasl.wrap(data) as flush calls it: it may raise
sasl_wrap_call(t) ==
    IF t.trans.fail = "wrap" THEN Raise(t, "SASLError") ELSE Ok(t, sasl_wrap(t.wbuf))

\* a flush that resets the write buffer first, as the other two classes do
TSaslClientTransport_flush_clearsFirst(t) ==
    Try(sasl_wrap_call(t), LAMBDA e :
        InnerWriteFlush([e.t EXCEPT !.wbuf = <<>>], pack_i(Len(e.ret)) \o e.ret))

\* TSaslClientTransport.flush
TSaslClientTransport_flush(t) ==
    Try(sasl_wrap_call(t), LAMBDA e :
        Try(InnerWriteFlush(e.t, pack_i(Len(e.ret)) \o e.ret),
            LAMBDA w : Ok([w.t EXCEPT !.wbuf = <<>>], <<>>)))

\* TSaslClientTransport._read_frame
TSaslClientTransport_read_frame(t) ==
    Try(OnInner(t, readAll(t.trans, 4)), LAMBDA h :
        Try(OnInner(h.t, readAll(h.t.trans, unpack_i(h.ret))), LAMBDA b :
            Ok(BufferIO_new(b.t, sasl_unwrap(b.ret)), <<>>)))

\* TSaslClientTransport.read
TSaslClientTransport_read(t, sz) ==
    Try(BufferIO_read(t, sz), LAMBDA first :
        IF Len(first.ret) # 0 THEN first
        ELSE Try(TSaslClientTransport_read_frame(first.t), LAMBDA f :
                 BufferIO_read(f.t, sz)))

\* TSaslClientTransport.cstringio_refill: one turn of `while len(prefix) < reqlen`
RECURSIVE TSaslClientTransport_cstringio_refill(_, _, _)
TSaslClientTransport_cstringio_refill(t, prefix, reqlen) ==
    IF Len(prefix) < reqlen
    THEN Try(TSaslClientTransport_read_frame(t), LAMBDA f :
             TSaslClientTransport_cstringio_refill(f.t, prefix \o f.t.rbuf, reqlen))
    ELSE Ok(BufferIO_new(t, prefix), prefix)

\* method dispatch on the object's class
read(t, sz) ==
    CASE t.kind = "raw" -> RawRead(t, sz)
      [] t.kind = "buffered" -> TBufferedTransport_read(t, sz)
      [] t.kind = "framed" -> TFramedTransport_read(t, sz)
      [] t.kind = "sasl" -> TSaslClientTransport_read(t, sz)

write(t, buf) ==
    CASE t.kind = "buffered" -> TBufferedTransport_write(t, buf)
      [] t.kind = "framed" -> TFramedTransport_write(t, buf)
      [] t.kind = "sasl" -> TSaslClientTransport_write(t, buf)

flush(t) ==
    CASE t.kind = "buffered" -> TBufferedTransport_flush(t)
      [] t.kind = "framed" -> TFramedTransport_flush(t)
      [] t.kind = "sasl" -> TSaslClientTransport_flush(t)

cstringio_refill(t, partialread, reqlen) ==
    CASE t.kind = "buffered" -> TBufferedTransport_cstringio_refill(t, partialread, reqlen)
      [] t.kind = "framed" -> TFramedTransport_cstringio_refill(t, partialread, reqlen)
      [] t.kind = "sasl" -> TSaslClientTransport_cstringio_refill(t, partialread, reqlen)

(***************************************************************************)
(* The state as objects, and back.                                          *)
(***************************************************************************)
\* the inner transport, with the short reads and the failure of this call
Inner(sched, fail, loop) ==
    [kind |-> "raw", data |-> data, log |-> log,
     sched |-> sched, fail |-> fail, loop |-> loop]

\* the transport under test, wrapping the inner transport
Self(inner) ==
    [kind |-> kind, trans |-> inner, wbuf |-> wbuf, rbuf |-> rbuf, rpos |-> rpos,
     rbuf_size |-> rbuf_size, sasl |-> sasl]

Install(t) ==
    /\ wbuf' = t.wbuf
    /\ rbuf' = t.rbuf
    /\ rpos' = t.rpos
    /\ sasl' = t.sasl
    /\ data' = t.trans.data
    /\ log' = t.trans.log
    /\ UNCHANGED <<kind, rbuf_size>>

\* the record of a call: its arguments, how it ended, and, from before it, the
\* length of the inner transport's log (at) and the write buffer (pre)
NoCall ==
    [op |-> "none", sz |-> 0, buf |-> <<>>, ret |-> <<>>, err |-> "none",
     at |-> 0, pre |-> <<>>]
Call(op, sz, buf, r) ==
    [op |-> op, sz |-> sz, buf |-> buf, ret |-> r.ret, err |-> r.err,
     at |-> Len(log), pre |-> wbuf]

\* the schedules of short reads: what each of the next inner reads has ready
Scheds(lo, n) == SeqsUpTo(lo..MaxChunk, n)

(***************************************************************************)
(* Specification SpecReadAll: readAll of TTransportBase over a transport    *)
(* whose read returns any number of bytes from 0 to the number asked.       *)
(***************************************************************************)
InitReadAll ==
    /\ kind = "raw"
    /\ wbuf = <<>> /\ rbuf = <<>> /\ rpos = 0 /\ rbuf_size = 1
    /\ sasl = [steps |-> 0, need |-> 0]
    /\ data \in SeqsUpTo(PayloadBytes, MaxData + 1)
    /\ log = <<>>
    /\ res = NoCall
    /\ hist = [pre |-> <<>>]

\* trans.readAll(sz); log holds the read calls of this readAll alone
ReadAllCall ==
    \E sz \in 0..MaxSz, sched \in Scheds(0, MaxSched) :
        \E r \in {readAll([Inner(sched, "none", FALSE) EXCEPT !.log = <<>>], sz)} :
            /\ data' = r.t.data
            /\ log' = r.t.log
            /\ res' = [Call("readAll", sz, <<>>, r) EXCEPT !.at = 0]
            /\ hist' = [pre |-> data]
            /\ UNCHANGED <<kind, wbuf, rbuf, rpos, rbuf_size, sasl>>

\* the peer makes more bytes available
ReadAllFeed ==
    \E b \in PayloadBytes :
        /\ Len(data) <= MaxData
        /\ data' = Append(data, b)
        /\ res' = NoCall
        /\ UNCHANGED <<kind, wbuf, rbuf, rpos, rbuf_size, sasl, log, hist>>

NextReadAll == ReadAllCall \/ ReadAllFeed

SpecReadAll == InitReadAll /\ [][NextReadAll]_vars

Chunks == [i \in 1..Len(log) |-> log[i].buf]

\* C1: readAll(n) returns exactly n bytes, the chunks read in order, or raises
\* EOFError at the first read that returns nothing before n bytes are there;
\* every read is asked for exactly the bytes still missing.
C1_ReadAllExactOrEof ==
    res.op = "readAll" =>
        /\ \A i \in 1..Len(log) :
              /\ log[i].op = "read"
              /\ log[i].req = res.sz - SumLen(SubSeq(Chunks, 1, i - 1))
              /\ log[i].req > 0
              /\ i < Len(log) => Len(log[i].buf) > 0
        /\ Concat(Chunks) \o data = hist.pre
        /\ \/ /\ res.err = "none"
              /\ Len(res.ret) = res.sz
              /\ res.ret = Concat(Chunks)
              /\ \A i \in 1..Len(log) : Len(log[i].buf) > 0
           \/ /\ res.err = "EOFError"
              /\ Len(log) > 0
              /\ Len(log[Len(log)].buf) = 0
              /\ SumLen(Chunks) < res.sz

\* a readAll that needed several short reads and returned all n bytes
C1_Witness ==
    /\ res.op = "readAll" /\ res.err = "none"
    /\ Len(log) >= 2 /\ Len(res.ret) = res.sz

\* a readAll that raised after reading part of what was asked
C1_WitnessEof ==
    /\ res.op = "readAll" /\ res.err = "EOFError"
    /\ Len(log) >= 2 /\ Len(data) > 0

(***************************************************************************)
(* Specification SpecWrite: write and flush calls on a Buffered, Framed or  *)
(* Security-Negotiated transport; a write may be handed an object the       *)
(* buffer rejects, and the inner transport's write or flush may raise.      *)
(* hist: n, the calls so far; acc and nw, the bytes and the number of the   *)
(* write calls that returned since the last flush call; clean, no write     *)
(* raised since then; sent, nsent and wasclean, the same three as the last  *)
(* flush call found them; frames, acc at each flush that returned; lost,    *)
(* some flush raised; tail, the bytes of the write calls that returned      *)
(* since the last flush call or write that raised; kept, the same since the *)
(* last flush that returned; nfail, the flush calls that raised since then, *)
(* and prevfail, nfail as the last flush call found it.                     *)
(***************************************************************************)
WriteBufs == {<<>>, <<1>>, <<2>>, <<1, 2>>}
\* an argument that is no byte string
NotBytes == <<-1>>
Wrappers == {"buffered", "framed", "sasl"}

InitWrite ==
    /\ kind \in Wrappers
    /\ wbuf = <<>> /\ rbuf = <<>> /\ rpos = 0 /\ rbuf_size = 1
    /\ sasl = [steps |-> 0, need |-> 0]
    /\ data = <<>>
    /\ log = <<>>
    /\ res = NoCall
    /\ hist = [n |-> 0, acc |-> <<>>, nw |-> 0, clean |-> TRUE,
               sent |-> <<>>, nsent |-> 0, wasclean |-> TRUE,
               frames |-> <<>>, lost |-> FALSE,
               tail |-> <<>>, kept |-> <<>>, nfail |-> 0, prevfail |-> 0]

WriteCall ==
    \E buf \in WriteBufs \cup {NotBytes} :
        /\ hist.n < MaxOps
        /\ \E r \in {write(Self(Inner(<<>>, "none", FALSE)), buf)} :
               /\ Install(r.t)
               /\ res' = Call("write", 0, buf, r)
               /\ hist' = [hist EXCEPT !.n = @ + 1,
                              !.acc = IF r.err = "none" THEN @ \o buf ELSE @,
                              !.nw = IF r.err = "none" THEN @ + 1 ELSE @,
                              !.clean = @ /\ r.err = "none",
                              !.tail = IF r.err = "none" THEN @ \o buf ELSE <<>>,
                              !.kept = IF r.err = "none" THEN @ \o buf ELSE @]

FlushCall ==
    \E fail \in {"none", "write", "flush", "wrap"} :
        /\ hist.n < MaxOps
        /\ \E r \in {flush(Self(Inner(<<>>, fail, FALSE)))} :
               /\ Install(r.t)
               /\ res' = Call("flush", 0, <<>>, r)
               /\ hist' = [hist EXCEPT !.n = @ + 1,
                              !.acc = <<>>, !.nw = 0, !.clean = TRUE,
                              !.sent = hist.acc, !.nsent = hist.nw, !.wasclean = hist.clean,
                              !.frames = IF r.err = "none" THEN Append(@, hist.acc) ELSE @,
                              !.lost = @ \/ r.err # "none",
                              !.tail = <<>>,
                              !.kept = IF r.err = "none" THEN <<>> ELSE @,
                              !.nfail = IF r.err = "none" THEN 0 ELSE @ + 1,
                              !.prevfail = hist.nfail]

NextWrite == WriteCall \/ FlushCall

SpecWrite == InitWrite /\ [][NextWrite]_vars

\* the calls made on the inner transport by the last call
Since == SubSeq(log, res.at + 1, Len(log))
InnerWrite(buf) == [op |-> "write", req |-> Len(buf), buf |-> buf]
InnerFlush == [op |-> "flush", req |-> 0, buf |-> <<>>]

\* C6: Buffered Transport: a write makes no call on the inner transport; a
\* flush after write calls that all returned makes exactly one inner write,
\* of the concatenation of the bytes written since the previous flush, then
\* one inner flush, and leaves the write buffer empty.
C6_BufferedOneWriteOneFlush ==
    kind = "buffered" =>
        /\ res.op = "write" => Since = <<>>
        /\ (res.op = "flush" /\ res.err = "none" /\ hist.wasclean) =>
              /\ Since = <<InnerWrite(hist.sent), InnerFlush>>
              /\ wbuf = <<>>

\* two writes, then a flush that returned
C6_Witness ==
    /\ kind = "buffered" /\ res.op = "flush" /\ res.err = "none"
    /\ hist.wasclean /\ hist.nsent >= 2 /\ Len(hist.sent) >= 2

RECURSIVE FramesLog(_)
FramesLog(fs) ==
    IF fs = <<>> THEN <<>>
    ELSE << InnerWrite(<<0, 0, 0, Len(Head(fs))>> \o Head(fs)), InnerFlush >>
            \o FramesLog(Tail(fs))

\* C7: Framed Transport: as long as every flush returned, the inner transport
\* has received one write and one flush per flush call, in order, each write
\* a frame of the 4-byte big-endian count followed by exactly the bytes
\* written since the previous flush.
C7_FramedOneFramePerFlush ==
    (kind = "framed" /\ ~hist.lost) =>
        /\ log = FramesLog(hist.frames)
        /\ hist.clean => wbuf = hist.acc

\* two flushes of different, non-empty payloads
C7_Witness ==
    /\ kind = "framed" /\ ~hist.lost /\ Len(hist.frames) = 2
    /\ hist.frames[1] # <<>> /\ hist.frames[2] # <<>>
    /\ hist.frames[1] # hist.frames[2]
    /\ res.op = "flush"

\* C9: Buffered and Framed Transport: when the inner write or flush raises
\* during flush(), the bytes accumulated by the earlier writes are still in
\* the write buffer.
C9_FlushFailureKeepsBuffer ==
    (kind \in {"buffered", "framed"} /\ res.op = "flush" /\ res.err # "none") =>
        wbuf = res.pre

\* the Security-Negotiated Transport does keep them
C9_SaslKeepsBuffer ==
    (kind = "sasl" /\ res.op = "flush" /\ res.err # "none") => wbuf = res.pre

\* C14: Buffered Transport: a write whose append raises re-raises the error
\* and leaves the write buffer empty; the write buffer holds the bytes of the
\* writes that returned since then (or since the last flush), and those are
\* what the next flush sends, in one inner write.
C14_FailedWriteEmptiesBuffer ==
    kind = "buffered" =>
        /\ (res.op = "write" /\ res.buf = NotBytes) => (res.err = "TypeError" /\ wbuf = <<>>)
        /\ wbuf = hist.tail
        /\ (res.op = "flush" /\ res.err = "none") =>
              Since = <<InnerWrite(res.pre), InnerFlush>>

\* a write, a write that raised, a write, and a flush that sent the last only
C14_Witness ==
    /\ kind = "buffered" /\ res.op = "flush" /\ res.err = "none"
    /\ ~hist.wasclean /\ Len(hist.sent) = 2 /\ Len(res.pre) = 1
    /\ Since = <<InnerWrite(res.pre), InnerFlush>>

\* C19: Security-Negotiated Transport: a flush in which wrap, the inner write
\* or the inner flush raises leaves the write buffer as it was; the write
\* buffer holds every byte written since the last flush that returned, and a
\* flush that returns sends them as one frame, the 4-byte length of the
\* wrapped bytes and the wrapped bytes, and empties the buffer.
C19_SaslFlushKeepsOnFailure ==
    kind = "sasl" =>
        /\ wbuf = hist.kept
        /\ (res.op = "flush" /\ res.err # "none") => wbuf = res.pre
        /\ (res.op = "flush" /\ res.err = "none") =>
              /\ wbuf = <<>>
              /\ Since = << InnerWrite(<<0, 0, 0, Len(sasl_wrap(res.pre))>> \o sasl_wrap(res.pre)),
                            InnerFlush >>

\* a flush that returned after one that raised, with a write in between
C19_Witness ==
    /\ kind = "sasl" /\ res.op = "flush" /\ res.err = "none"
    /\ hist.prevfail >= 1 /\ hist.nsent >= 1
    /\ Len(res.pre) > Len(hist.sent) /\ hist.sent # <<>>

(***************************************************************************)
(* Specification SpecLoop: a Framed or Security-Negotiated transport writes *)
(* and flushes into a byte channel and its peer reads from the other end.   *)
(* The writer's fields are wbuf and the channel, the reader's are rbuf,     *)
(* rpos and the channel, so one set of fields stands for the two objects.   *)
(* The channel may deliver short reads.  The inner log is not kept.         *)
(* hist: written, the bytes of the write calls; frames, the payload of each *)
(* flush; got, the bytes the read calls returned; pdata, prbuf and prpos,   *)
(* the channel and the read buffer before the last call.  The channel      *)
(* delivers short reads of one size per call.                               *)
(***************************************************************************)
InitLoop ==
    /\ kind \in {"framed", "sasl"}
    /\ wbuf = <<>> /\ rbuf = <<>> /\ rpos = 0 /\ rbuf_size = 1
    /\ sasl = [steps |-> 0, need |-> 0]
    /\ data = <<>>
    /\ log = <<>>
    /\ res = NoCall
    /\ hist = [written |-> <<>>, frames |-> <<>>, got |-> <<>>,
               pdata |-> <<>>, prbuf |-> <<>>, prpos |-> 0]

Before == [hist EXCEPT !.pdata = data, !.prbuf = rbuf, !.prpos = rpos]

InstallQuiet(t) ==
    /\ wbuf' = t.wbuf
    /\ rbuf' = t.rbuf
    /\ rpos' = t.rpos
    /\ sasl' = t.sasl
    /\ data' = t.trans.data
    /\ log' = <<>>
    /\ UNCHANGED <<kind, rbuf_size>>

LoopWrite ==
    \E buf \in WriteBufs \ {<<>>} :
        /\ Len(hist.written) + Len(buf) <= MaxData
        /\ \E r \in {write(Self(Inner(<<>>, "none", TRUE)), buf)} :
               /\ InstallQuiet(r.t)
               /\ res' = Call("write", 0, buf, r)
               /\ hist' = [Before EXCEPT !.written = @ \o buf]

LoopFlush ==
    /\ Len(hist.frames) < MaxFrames
    /\ \E r \in {flush(Self(Inner(<<>>, "none", TRUE)))} :
           /\ InstallQuiet(r.t)
           /\ res' = Call("flush", 0, <<>>, r)
           /\ hist' = [Before EXCEPT !.frames = Append(@, wbuf)]

\* the first frame of the byte string d is whole and its length is below 256
HasFrame(d) ==
    /\ Len(d) >= 4 /\ d[1] = 0 /\ d[2] = 0 /\ d[3] = 0
    /\ Len(d) >= 4 + d[4]
FramePayload(d) == SubSeq(d, 5, 4 + d[4])

LoopRead ==
    \E sz \in 0..MaxSz, sched \in Scheds(1, 1) :
        \E r \in {read(Self(Inner(sched, "none", TRUE)), sz)} :
            /\ InstallQuiet(r.t)
            /\ res' = Call("read", sz, <<>>, r)
            /\ hist' = [Before EXCEPT !.got = @ \o r.ret]

NextLoop == LoopWrite \/ LoopFlush \/ LoopRead

SpecLoop == InitLoop /\ [][NextLoop]_vars

\* the payloads of the whole frames of the byte string d, in order
RECURSIVE Payloads(_)
Payloads(d) ==
    IF HasFrame(d) THEN FramePayload(d) \o Payloads(Drop(d, 4 + d[4])) ELSE <<>>

\* the unread rest of the read buffer
Unread == Drop(rbuf, rpos)

\* C2: what was written and flushed through a Framed Transport is what the
\* peer's read calls return, once the peer has read everything.
C2_FramedRoundTrip ==
    (kind = "framed" /\ wbuf = <<>> /\ data = <<>> /\ Unread = <<>>) =>
        hist.got = hist.written

\* Every read of one byte or more hands over the next bytes of the stream of
\* payloads and loses none: the round trip holds for such reads.
FramedReadConserves ==
    [][(kind = "framed" /\ res'.op = "read" /\ res'.sz > 0) =>
          res'.ret \o Drop(rbuf', rpos') \o Payloads(data') = Unread \o Payloads(data)]_vars

\* the last call found the read buffer used up and a frame of length 0 next
AtEmpty ==
    /\ hist.prpos = Len(hist.prbuf)
    /\ HasFrame(hist.pdata)
    /\ FramePayload(hist.pdata) = <<>>

\* C8: Framed Transport: a flush of an empty write buffer puts a frame of
\* length 0 and no payload on the channel; a read that finds its buffer used
\* up and that frame next returns nothing and consumes its four bytes alone;
\* the read after it returns the first bytes of the frame that follows.
C8_EmptyFrame ==
    kind = "framed" =>
        /\ (res.op = "flush" /\ res.pre = <<>>) => data = hist.pdata \o <<0, 0, 0, 0>>
        /\ (res.op = "read" /\ AtEmpty) =>
              /\ res.err = "none" /\ res.ret = <<>>
              /\ data = Drop(hist.pdata, 4)
              /\ Unread = <<>>
        /\ (res.op = "read" /\ hist.prpos = Len(hist.prbuf) /\ HasFrame(hist.pdata)) =>
              /\ res.err = "none"
              /\ res.ret = Take(FramePayload(hist.pdata), res.sz)
              /\ data = Drop(hist.pdata, 4 + Len(FramePayload(hist.pdata)))

\* a read that returned bytes of the frame behind an empty frame, right after
\* the read that returned nothing at the empty frame
C8_Witness ==
    /\ kind = "framed" /\ res.op = "read" /\ res.ret # <<>>
    /\ rbuf # <<>> /\ hist.prbuf = <<>> /\ hist.prpos = 0
    /\ Len(hist.frames) >= 2 /\ hist.frames[1] = <<>>
    /\ hist.got = res.ret

\* the payloads of the whole Security-Negotiated frames of the byte string d
RECURSIVE SaslPayloads(_)
SaslPayloads(d) ==
    IF HasFrame(d)
    THEN sasl_unwrap(FramePayload(d)) \o SaslPayloads(Drop(d, 4 + d[4]))
    ELSE <<>>

\* C15: what was written and flushed through a Security-Negotiated Transport
\* is what the peer's read calls return, once the peer has read everything.
C15_SaslRoundTrip ==
    (kind = "sasl" /\ wbuf = <<>> /\ data = <<>> /\ Unread = <<>>) =>
        hist.got = hist.written

\* The two halves of the data path do as C15 says: a flush appends to the
\* channel the 4-byte length of wrap(write buffer) and the wrapped bytes; a
\* read that finds the read buffer used up takes one whole frame from the
\* channel and serves unwrap of its body.
SaslEnvelope ==
    kind = "sasl" =>
        /\ res.op = "flush" =>
              data = hist.pdata \o <<0, 0, 0, Len(sasl_wrap(res.pre))>> \o sasl_wrap(res.pre)
        /\ (res.op = "read" /\ hist.prpos = Len(hist.prbuf) /\ HasFrame(hist.pdata)) =>
              /\ res.err = "none"
              /\ rbuf = sasl_unwrap(FramePayload(hist.pdata))
              /\ res.ret = Take(rbuf, res.sz)
              /\ data = Drop(hist.pdata, 4 + Len(FramePayload(hist.pdata)))

\* Every read of one byte or more hands over the next bytes of the stream of
\* unwrapped payloads and loses none.
SaslReadConserves ==
    [][(kind = "sasl" /\ res'.op = "read" /\ res'.sz > 0) =>
          res'.ret \o Drop(rbuf', rpos') \o SaslPayloads(data') = Unread \o SaslPayloads(data)]_vars

(***************************************************************************)
(* Specification SpecSasl: a Security-Negotiated transport whose peer has   *)
(* its handshake messages (hist.script) on the channel; open, write and     *)
(* flush are called in any order.  hist: script, the peer's messages; n,    *)
(* the calls so far; opens, the open calls so far.                          *)
(***************************************************************************)
\* a handshake message on the wire
Msg(status, payload) == pack_BI(status, Len(payload)) \o payload

\* the messages a peer may send: status and payload; 9 is no status at all
PeerMsgs ==
    { <<OK, <<>> >>, <<OK, <<7>> >>, <<COMPLETE, <<>> >>,
      <<BAD, <<8>> >>, <<ERROR, <<>> >>, <<9, <<>> >> }

RECURSIVE Wire(_)
Wire(script) ==
    IF script = <<>> THEN <<>>
    ELSE Msg(Head(script)[1], Head(script)[2]) \o Wire(Tail(script))

InitSasl ==
    /\ kind = "sasl"
    /\ wbuf = <<>> /\ rbuf = <<>> /\ rpos = 0 /\ rbuf_size = 1
    /\ sasl \in [steps : {0}, need : 0..2]
    /\ \E script \in SeqsUpTo(PeerMsgs, MaxMsgs) :
          /\ data = Wire(script)
          /\ hist = [script |-> script, n |-> 0, opens |-> 0]
    /\ log = <<>>
    /\ res = NoCall

SaslOpen ==
    \E sched \in Scheds(1, 1) :
        /\ hist.n < MaxSaslCalls
        /\ \E r \in {TSaslClientTransport_open(Self(Inner(sched, "none", FALSE)))} :
               /\ Install(r.t)
               /\ res' = Call("open", 0, <<>>, r)
               /\ hist' = [hist EXCEPT !.n = @ + 1, !.opens = @ + 1]

SaslWrite ==
    \E buf \in {<<1>>, <<1, 2>>} :
        /\ hist.n < MaxSaslCalls
        /\ \E r \in {write(Self(Inner(<<>>, "none", FALSE)), buf)} :
               /\ Install(r.t)
               /\ res' = Call("write", 0, buf, r)
               /\ hist' = [hist EXCEPT !.n = @ + 1]

SaslFlush ==
    /\ hist.n < MaxSaslCalls
    /\ \E r \in {flush(Self(Inner(<<>>, "none", FALSE)))} :
           /\ Install(r.t)
           /\ res' = Call("flush", 0, <<>>, r)
           /\ hist' = [hist EXCEPT !.n = @ + 1]

NextSasl == SaslOpen \/ SaslWrite \/ SaslFlush

SpecSasl == InitSasl /\ [][NextSasl]_vars

\* the messages the first open receives: the peer's, up to the first whose
\* status is not OK
RECURSIVE Received(_)
Received(script) ==
    IF script = <<>> THEN <<>>
    ELSE IF Head(script)[1] = OK THEN <<Head(script)>> \o Received(Tail(script))
    ELSE <<Head(script)>>

Rcvd == Received(hist.script)
LastStatus == IF Rcvd = <<>> THEN OK ELSE Rcvd[Len(Rcvd)][1]
FirstOpen == res.op = "open" /\ hist.opens = 1

\* C3: open() raises NOT_OPEN when it receives a status other than OK and
\* COMPLETE, and when it receives COMPLETE while the capability reports the
\* negotiation incomplete; it returns only on COMPLETE with the capability
\* complete.
C3_OpenNotOpen ==
    FirstOpen =>
        /\ LastStatus \notin {OK, COMPLETE} => res.err = "NOT_OPEN"
        /\ (LastStatus = COMPLETE /\ sasl.steps < sasl.need) => res.err = "NOT_OPEN"
        /\ res.err = "none" => (LastStatus = COMPLETE /\ sasl.steps >= sasl.need)
        /\ LastStatus = OK => res.err = "EOFError"

\* COMPLETE arrived after a challenge, with the capability not yet complete
C3_Witness ==
    /\ FirstOpen /\ res.err = "NOT_OPEN"
    /\ LastStatus = COMPLETE /\ Len(Rcvd) >= 2 /\ sasl.steps < sasl.need

\* an open that returned normally
C3_WitnessOpened ==
    /\ FirstOpen /\ res.err = "none" /\ Len(Rcvd) >= 2

\* C4: once the handshake has received BAD or ERROR, no flush writes a data
\* frame to the inner transport.
C4_NoFrameAfterBadHandshake ==
    (hist.opens >= 1 /\ LastStatus \in {BAD, ERROR}) =>
        ~(res.op = "flush" /\ \E i \in 1..Len(Since) : Since[i].op = "write")

\* C13: an open() after an open() that has ended writes no handshake message
\* to the inner transport.
C13_NoSecondNegotiation ==
    (res.op = "open" /\ hist.opens >= 2) =>
        \A i \in 1..Len(Since) : Since[i].op # "write"

\* the writes among the inner calls l, and the bytes read before the i-th call
WritesOf(l) == SelectSeq(l, LAMBDA e : e.op = "write")
RECURSIVE ReadBefore(_, _)
ReadBefore(l, i) ==
    IF i <= 1 THEN 0
    ELSE (IF l[i - 1].op = "read" THEN Len(l[i - 1].buf) ELSE 0) + ReadBefore(l, i - 1)

\* the answers open owes: one OK message per OK challenge received
RECURSIVE Answers(_)
Answers(rc) ==
    IF rc = <<>> THEN <<>>
    ELSE (IF Head(rc)[1] = OK THEN <<Msg(OK, sasl_process(Head(rc)[2]))>> ELSE <<>>)
            \o Answers(Tail(rc))

\* the place in l of its k-th write
RECURSIVE WriteAt(_, _, _)
WriteAt(l, k, from) ==
    IF from > Len(l) THEN 0
    ELSE IF l[from].op = "write" THEN (IF k = 1 THEN from ELSE WriteAt(l, k - 1, from + 1))
    ELSE WriteAt(l, k, from + 1)

\* C5: open() first writes (START, mechanism), then (OK, initial token), both
\* before it reads anything; then one (OK, process(challenge)) per OK message
\* received, each after that message was read and before the next is read;
\* nothing after a message of another status.  Every message is flushed.
C5_HandshakeOrder ==
    FirstOpen =>
        /\ [i \in 1..Len(WritesOf(Since)) |-> WritesOf(Since)[i].buf]
              = <<Msg(START, sasl_mechanism), Msg(OK, sasl_initial)>> \o Answers(Rcvd)
        /\ \A i \in 1..Len(Since) :
              Since[i].op = "write" => (i < Len(Since) /\ Since[i + 1].op = "flush")
        /\ Len(Since) >= 4 /\ \A i \in 1..4 : Since[i].op # "read"
        /\ \A k \in 1..Len(Answers(Rcvd)) :
              ReadBefore(Since, WriteAt(Since, k + 2, 1))
                  = Len(Wire(SubSeq(Rcvd, 1, k)))

\* two challenges answered, then COMPLETE
C5_Witness ==
    /\ FirstOpen /\ res.err = "none"
    /\ Len(Rcvd) = 3 /\ Rcvd[1][2] # Rcvd[2][2]

(***************************************************************************)
(* Specification SpecRefill: cstringio_refill of a Buffered, Framed or      *)
(* Security-Negotiated transport.  The peer puts bytes on the channel       *)
(* through a transport of the same class (a write and a flush), and may end *)
(* the stream in the middle of a frame; the channel may deliver short       *)
(* reads.  hist: fed, the pieces the peer sent; cut, the stream ended in    *)
(* the middle of a frame; pdata, the channel before the last call.          *)
(***************************************************************************)
RbufSizes == 1..MaxSz
Partials == SeqsUpTo(PayloadBytes, 1)
\* the beginnings of a frame: half a header, and a header with half a body
BrokenFrames == {<<0, 0>>, <<0, 0, 0, 2, 1>>}

InitRefill ==
    /\ kind \in Wrappers
    /\ rbuf_size \in RbufSizes
    /\ wbuf = <<>> /\ rbuf = <<>> /\ rpos = 0
    /\ sasl = [steps |-> 0, need |-> 0]
    /\ data = <<>>
    /\ log = <<>>
    /\ res = NoCall
    /\ hist = [fed |-> 0, cut |-> FALSE, pdata |-> <<>>]

\* the peer writes buf and flushes
RefillFeed ==
    \E buf \in WriteBufs :
        /\ hist.fed < MaxFrames /\ ~hist.cut
        /\ \E w \in {write([Self(Inner(<<>>, "none", TRUE)) EXCEPT !.wbuf = <<>>], buf)} :
               \E r \in {flush(w.t)} :
                   /\ data' = r.t.trans.data
                   /\ res' = NoCall
                   /\ hist' = [hist EXCEPT !.fed = @ + 1, !.pdata = data]
                   /\ UNCHANGED <<kind, wbuf, rbuf, rpos, log, rbuf_size, sasl>>

\* the peer's stream ends in the middle of a frame
RefillCut ==
    \E piece \in BrokenFrames :
        /\ kind \in {"framed", "sasl"} /\ ~hist.cut
        /\ data' = data \o piece
        /\ res' = NoCall
        /\ hist' = [hist EXCEPT !.cut = TRUE, !.pdata = data]
        /\ UNCHANGED <<kind, wbuf, rbuf, rpos, log, rbuf_size, sasl>>

RefillCall ==
    \E partialread \in Partials, reqlen \in 0..MaxSz, sched \in Scheds(1, 1) :
        \E r \in {cstringio_refill(Self(Inner(sched, "none", TRUE)), partialread, reqlen)} :
            /\ InstallQuiet(r.t)
            /\ res' = Call("refill", reqlen, partialread, r)
            /\ hist' = [hist EXCEPT !.pdata = data]

NextRefill == RefillFeed \/ RefillCut \/ RefillCall

SpecRefill == InitRefill /\ [][NextRefill]_vars

\* the bodies of the whole frames of the byte string d, in order
RECURSIVE FrameBodies(_)
FrameBodies(d) ==
    IF HasFrame(d) THEN <<FramePayload(d)>> \o FrameBodies(Drop(d, 4 + d[4])) ELSE <<>>

\* the payloads the whole frames of the channel carried before the last call
RefillFrames ==
    IF kind = "sasl"
    THEN [i \in 1..Len(FrameBodies(hist.pdata)) |-> sasl_unwrap(FrameBodies(hist.pdata)[i])]
    ELSE FrameBodies(hist.pdata)

\* the bytes of the channel its first k frames take
WireLen(k) == 4 * k + SumLen(Take(FrameBodies(hist.pdata), k))

\* C10: cstringio_refill(partial, reqlen) either installs and returns a read
\* buffer that holds partial followed by the next bytes of the inner
\* transport (for Framed and Security-Negotiated, the payloads of its next
\* whole frames) and is at least reqlen long, or raises EOFError, and then
\* the inner stream did not have the bytes.
C10_RefillContract ==
    res.op = "refill" =>
        /\ res.err \in {"none", "EOFError"}
        /\ res.err = "none" =>
              /\ rbuf = res.ret /\ rpos = 0
              /\ Len(res.ret) >= res.sz
              /\ IF kind = "buffered"
                 THEN \E n \in 0..Len(hist.pdata) :
                          /\ res.ret = res.buf \o Take(hist.pdata, n)
                          /\ data = Drop(hist.pdata, n)
                 ELSE \E k \in 0..Len(RefillFrames) :
                          /\ res.ret = res.buf \o Concat(Take(RefillFrames, k))
                          /\ data = Drop(hist.pdata, WireLen(k))
        /\ res.err = "EOFError" =>
              IF kind = "buffered"
              THEN Len(res.buf) + Len(hist.pdata) < res.sz
              ELSE Len(res.buf) + SumLen(RefillFrames) < res.sz

\* a Framed refill that took the partial read and two frames to fill the buffer
C10_Witness ==
    /\ kind = "framed" /\ res.op = "refill" /\ res.err = "none"
    /\ res.buf # <<>> /\ Len(res.ret) = res.sz
    /\ Len(hist.pdata) - Len(data) = 10

\* a Buffered refill that topped a short read up with readAll
C10_WitnessBuffered ==
    /\ kind = "buffered" /\ res.op = "refill" /\ res.err = "none"
    /\ res.sz < rbuf_size /\ Len(res.ret) = res.sz
    /\ Len(hist.pdata) - Len(data) >= 2

\* a Security-Negotiated refill that ran into the end of the stream in a frame
C10_WitnessEof ==
    /\ kind = "sasl" /\ res.op = "refill" /\ res.err = "EOFError"
    /\ hist.cut /\ Len(RefillFrames) >= 1

(***************************************************************************)
(* Specification SpecRead: read and cstringio_refill calls on a             *)
(* Buffered or Framed transport whose peer sends numbered bytes, 1, 2, 3    *)
(* and so on in the order sent, so that a byte served twice or out of order *)
(* shows.  The peer sends through a transport of the same class (a write    *)
(* and a flush) and may end the stream in the middle of a frame; the        *)
(* channel may deliver short reads.  A refill is handed the unread rest of  *)
(* the read buffer, which is what its caller has taken from the buffer.     *)
(* log holds the inner calls of a Buffered transport's last call.  hist:    *)
(* fed, the pieces sent, frames, their payloads, and sent, all the bytes    *)
(* put on the channel; next, the next byte to send; cut, the stream ended   *)
(* inside a frame; got, the bytes read and readAll returned;                *)
(* pdata, prbuf and prpos, the channel and the read buffer before the last  *)
(* call; failed, some call raised; merged, the read buffer was installed by *)
(* a refill.                                                                *)
(***************************************************************************)
PieceSizes == 0..2
\* the inner reads give all they have, or a byte at a time
ShortReads == {<<>>, <<1>>}
ReadBufSizes == {1, 2}

InitRead ==
    /\ kind \in {"buffered", "framed"}
    /\ rbuf_size \in (IF kind = "buffered" THEN ReadBufSizes ELSE {1})
    /\ wbuf = <<>> /\ rbuf = <<>> /\ rpos = 0
    /\ sasl = [steps |-> 0, need |-> 0]
    /\ data = <<>>
    /\ log = <<>>
    /\ res = NoCall
    /\ hist = [fed |-> 0, frames |-> <<>>, sent |-> <<>>, next |-> 1, cut |-> FALSE,
               got |-> <<>>,
               pdata |-> <<>>, prbuf |-> <<>>, prpos |-> 0,
               failed |-> FALSE, merged |-> FALSE]

\* the peer writes the next k bytes and flushes, limit times at most
ReadFeedUpTo(limit) ==
    \E k \in PieceSizes :
        /\ hist.fed < limit /\ ~hist.cut
        /\ kind = "buffered" => k > 0
        /\ \E buf \in {[i \in 1..k |-> hist.next + i - 1]} :
               \E w \in {write([Self(Inner(<<>>, "none", TRUE)) EXCEPT !.wbuf = <<>>], buf)} :
                   \E r \in {flush(w.t)} :
                       /\ data' = r.t.trans.data
                       /\ res' = NoCall
                       /\ hist' = [hist EXCEPT !.fed = @ + 1, !.next = @ + k,
                                      !.frames = Append(@, buf),
                                      !.sent = @ \o Drop(r.t.trans.data, Len(data)),
                                      !.pdata = data, !.prbuf = rbuf, !.prpos = rpos]
                       /\ UNCHANGED <<kind, wbuf, rbuf, rpos, log, rbuf_size, sasl>>

ReadFeed == ReadFeedUpTo(MaxFrames)
ReadFeedMore == ReadFeedUpTo(MaxFrames + 1)

\* the peer's stream ends in the middle of a frame
ReadCut ==
    \E piece \in BrokenFrames :
        /\ kind = "framed" /\ ~hist.cut
        /\ data' = data \o piece
        /\ res' = NoCall
        /\ hist' = [hist EXCEPT !.cut = TRUE, !.sent = @ \o piece,
                                !.pdata = data, !.prbuf = rbuf, !.prpos = rpos]
        /\ UNCHANGED <<kind, wbuf, rbuf, rpos, log, rbuf_size, sasl>>

\* the reader's fields after the call r, and what the call did
Served(op, sz, buf, r, merged) ==
    /\ rbuf' = r.t.rbuf
    /\ rpos' = r.t.rpos
    /\ data' = r.t.trans.data
    /\ log' = IF kind = "buffered" THEN r.t.trans.log ELSE <<>>
    /\ UNCHANGED <<kind, wbuf, rbuf_size, sasl>>
    /\ res' = [Call(op, sz, buf, r) EXCEPT !.at = 0]
    /\ hist' = [hist EXCEPT !.got = IF op = "refill" THEN @ ELSE @ \o r.ret,
                            !.pdata = data, !.prbuf = rbuf, !.prpos = rpos,
                            !.failed = @ \/ r.err # "none",
                            !.merged = merged]

\* the read buffer after the call r is the one before it
SameBuffer(r) == r.t.trans.data = data /\ r.t.rbuf = rbuf

ReadRead ==
    \E sz \in 0..MaxSz, sched \in ShortReads :
        \E r \in {read(Self([Inner(sched, "none", TRUE) EXCEPT !.log = <<>>]), sz)} :
            Served("read", sz, <<>>, r, hist.merged /\ SameBuffer(r))

ReadReadAll ==
    \E sz \in 1..MaxSz, sched \in ShortReads :
        \E r \in {readAll(Self([Inner(sched, "none", TRUE) EXCEPT !.log = <<>>]), sz)} :
            Served("readAll", sz, <<>>, r, hist.merged /\ SameBuffer(r))

ReadRefill ==
    \E reqlen \in 0..MaxSz, sched \in ShortReads :
        \E r \in {cstringio_refill(Self([Inner(sched, "none", TRUE) EXCEPT !.log = <<>>]),
                                   Drop(rbuf, rpos), reqlen)} :
            Served("refill", reqlen, Drop(rbuf, rpos), r,
                   r.err = "none" \/ (hist.merged /\ SameBuffer(r)))

NextRead == ReadFeed \/ ReadCut \/ ReadRead \/ ReadRefill

SpecRead == InitRead /\ [][NextRead]_vars

\* Specification SpecFramedReadAll: read and readAll calls on a Framed
\* transport, with the state and the peer of SpecRead.
InitFramedReadAll == InitRead /\ kind = "framed"

NextFramedReadAll == ReadFeedMore \/ ReadRead \/ ReadReadAll

SpecFramedReadAll == InitFramedReadAll /\ [][NextFramedReadAll]_vars

\* C11: Buffered and Framed Transport: the bytes read hands out, taken in
\* the order of the calls, are bytes of the inner stream in the order they
\* arrived, none of them twice.
C11_NeverServedTwice ==
    \A i, j \in 1..Len(hist.got) : i < j => hist.got[i] < hist.got[j]

\* a read, a refill that found unread bytes, and reads from the new buffer
C11_Witness ==
    /\ kind = "framed" /\ res.op = "read" /\ hist.merged
    /\ Len(hist.got) >= 3 /\ Len(res.ret) >= 2
    /\ \E i \in 1..Len(hist.frames) : Len(hist.frames[i]) >= 2

\* the unread rest of the read buffer before the last call
PreUnread == Drop(hist.prbuf, hist.prpos)

\* C16: Buffered Transport: read(n) with unread bytes in the read buffer
\* returns min(n, unread) of them and makes no call on the inner transport;
\* with the read buffer used up it makes one inner read, of max(n, rbuf_size)
\* bytes, installs what it got as the read buffer and returns at most n
\* bytes of it; it never returns more than n bytes.
C16_BufferedReadPolicy ==
    (kind = "buffered" /\ res.op = "read") =>
        /\ res.err = "none" /\ Len(res.ret) <= res.sz
        /\ PreUnread # <<>> =>
              /\ res.ret = Take(PreUnread, res.sz)
              /\ log = <<>>
              /\ rbuf = hist.prbuf
        /\ PreUnread = <<>> =>
              /\ Len(log) = 1 /\ log[1].op = "read"
              /\ log[1].req = Max(res.sz, rbuf_size)
              /\ rbuf = log[1].buf
              /\ res.ret = Take(rbuf, res.sz)

\* The policy holds for every read of one byte or more.
BufferedReadPolicyPositive ==
    res.sz > 0 => C16_BufferedReadPolicy

\* the bytes the reader has taken from the channel
Consumed == Take(hist.sent, Len(hist.sent) - Len(data))

\* the bytes the whole frames at the head of the byte string d take
RECURSIVE WireOf(_)
WireOf(d) == IF HasFrame(d) THEN 4 + d[4] + WireOf(Drop(d, 4 + d[4])) ELSE 0

\* the bytes consumed are whole frames: for each, 4 and its declared length
Aligned == WireOf(Consumed) = Len(Consumed)

\* the bytes ret are all of one frame
OneFrame(ret) ==
    \/ ret = <<>>
    \/ \E i \in 1..Len(hist.frames) :
          \A j \in 1..Len(ret) : \E q \in 1..Len(hist.frames[i]) : hist.frames[i][q] = ret[j]

\* C17 as stated: Framed Transport: while every read and refill call has
\* returned, the bytes consumed from the inner transport are whole frames,
\* and no read returns bytes of two frames.
C17_FrameAlignment ==
    (kind = "framed" /\ ~hist.failed) =>
        /\ Aligned
        /\ res.op = "read" => OneFrame(res.ret)

\* C17, amended: Framed Transport: while every read and refill call has
\* returned, the bytes consumed from the inner transport are whole frames; a
\* read returns at most the unread rest of the read buffer, which is of one
\* frame when readFrame installed the buffer, and may span the frames a
\* refill has merged when a refill installed it.
C17_FrameAlignmentAmended ==
    (kind = "framed" /\ ~hist.failed) =>
        /\ Aligned
        /\ (res.op = "read" /\ ~hist.merged) => OneFrame(res.ret)
        /\ (res.op = "read" /\ hist.merged) => res.ret = Take(PreUnread, res.sz)

\* a read served from a buffer a refill installed, with bytes of two frames
C17_Witness ==
    /\ kind = "framed" /\ ~hist.failed /\ res.op = "read" /\ hist.merged
    /\ ~OneFrame(res.ret) /\ Aligned /\ data # <<>>

\* a read that took the second of two frames from the channel
C17_WitnessFrames ==
    /\ kind = "framed" /\ ~hist.failed /\ res.op = "read" /\ ~hist.merged
    /\ Len(Consumed) >= 10 /\ Len(res.ret) >= 2

\* the place, counted from j, of the frame of length 0 that a readAll of n
\* bytes meets among the frames F before it has its n bytes; 0 if it meets none
RECURSIVE EmptyAt(_, _, _)
EmptyAt(F, n, j) ==
    IF n <= 0 \/ F = <<>> THEN 0
    ELSE IF Head(F) = <<>> THEN j
    ELSE EmptyAt(Tail(F), n - Len(Head(F)), j + 1)

\* C18: Framed Transport with its read buffer used up: a readAll(n), n > 0,
\* that meets a frame of length 0 before it has n bytes raises EOFError,
\* whatever follows that frame on the inner stream; the frames up to and
\* including the empty one stay consumed and the bytes the call had gathered
\* are neither returned nor left in the read buffer.
C18_ReadAllStopsAtEmptyFrame ==
    (kind = "framed" /\ res.op = "readAll" /\ PreUnread = <<>>
       /\ EmptyAt(FrameBodies(hist.pdata), res.sz, 1) > 0) =>
        /\ res.err = "EOFError" /\ res.ret = <<>>
        /\ data = Drop(hist.pdata, WireLen(EmptyAt(FrameBodies(hist.pdata), res.sz, 1)))
        /\ Drop(rbuf, rpos) = <<>>

\* a readAll that had a byte of the first frame, met the empty second frame
\* and raised with a third frame, not empty, still on the channel
C18_Witness ==
    /\ kind = "framed" /\ res.op = "readAll" /\ res.err = "EOFError"
    /\ PreUnread = <<>>
    /\ EmptyAt(FrameBodies(hist.pdata), res.sz, 1) = 2
    /\ HasFrame(data) /\ FramePayload(data) # <<>>

(***************************************************************************)
(* Specification SpecBadFrame: read calls on a Framed or a                  *)
(* Security-Negotiated transport whose peer sends whole frames and, among   *)
(* them, length fields that decode to a negative number.  hist: fed, the    *)
(* pieces the peer sent; pdata, prbuf and prpos, the channel and the read   *)
(* buffer before the last call.                                             *)
(***************************************************************************)
\* length fields of -1, -2 and -2^31
NegativeLengths == {<<255, 255, 255, 255>>, <<255, 255, 255, 254>>, <<128, 0, 0, 0>>}

InitBadFrame ==
    /\ kind \in {"framed", "sasl"}
    /\ wbuf = <<>> /\ rbuf = <<>> /\ rpos = 0 /\ rbuf_size = 1
    /\ sasl = [steps |-> 0, need |-> 0]
    /\ data = <<>>
    /\ log = <<>>
    /\ res = NoCall
    /\ hist = [fed |-> 0, pdata |-> <<>>, prbuf |-> <<>>, prpos |-> 0]

\* the peer writes buf and flushes
BadFrameFeed ==
    \E buf \in WriteBufs :
        /\ hist.fed < MaxFrames + 1
        /\ \E w \in {write([Self(Inner(<<>>, "none", TRUE)) EXCEPT !.wbuf = <<>>], buf)} :
               \E r \in {flush(w.t)} :
                   /\ data' = r.t.trans.data
                   /\ res' = NoCall
                   /\ hist' = [fed |-> hist.fed + 1, pdata |-> data, prbuf |-> rbuf, prpos |-> rpos]
                   /\ UNCHANGED <<kind, wbuf, rbuf, rpos, log, rbuf_size, sasl>>

\* the peer sends a negative length field
BadFrameNegative ==
    \E header \in NegativeLengths :
        /\ hist.fed < MaxFrames + 1
        /\ data' = data \o header
        /\ res' = NoCall
        /\ hist' = [fed |-> hist.fed + 1, pdata |-> data, prbuf |-> rbuf, prpos |-> rpos]
        /\ UNCHANGED <<kind, wbuf, rbuf, rpos, log, rbuf_size, sasl>>

BadFrameRead ==
    \E sz \in 0..MaxSz, sched \in ShortReads :
        \E r \in {read(Self(Inner(sched, "none", TRUE)), sz)} :
            /\ InstallQuiet(r.t)
            /\ res' = Call("read", sz, <<>>, r)
            /\ hist' = [hist EXCEPT !.pdata = data, !.prbuf = rbuf, !.prpos = rpos]

NextBadFrame == BadFrameFeed \/ BadFrameNegative \/ BadFrameRead

SpecBadFrame == InitBadFrame /\ [][NextBadFrame]_vars

\* the last call found the read buffer used up and a negative length next
AtNegative ==
    /\ hist.prpos = Len(hist.prbuf)
    /\ Len(hist.pdata) >= 4
    /\ unpack_i(Take(hist.pdata, 4)) < 0

\* C12: a read of a Framed or Security-Negotiated transport that meets a
\* length field decoding to a negative number fails with an error.
C12_NegativeLengthFails ==
    (res.op = "read" /\ AtNegative) => res.err # "none"

\* What the code does with a negative length: it takes it for a frame with
\* no payload, consumes the four bytes and returns nothing.
NegativeLengthReadsAsEmpty ==
    (res.op = "read" /\ AtNegative) =>
        /\ res.err = "none" /\ res.ret = <<>>
        /\ rbuf = <<>> /\ rpos = 0
        /\ data = Drop(hist.pdata, 4)

(***************************************************************************)
(* Specification SpecHandshake: one open() of a Security-Negotiated         *)
(* transport, a turn of its loop at a time, against a peer that answers     *)
(* with a message at a time or ends the stream.  recv_sasl_msg blocks until *)
(* the peer has sent a message or ended the stream.  hist: pc, where open   *)
(* is: about to send its two first messages ("start"), in the loop          *)
(* ("loop"), returned ("done") or raised ("raised"); closed, the stream has *)
(* ended; final, the peer has sent a message of a status other than OK or   *)
(* ended the stream; rounds, the turns of the loop so far, counted up to    *)
(* MaxMsgs.  SpecHandshakeFair adds that open, once called, keeps running.  *)
(***************************************************************************)
InitHandshake ==
    /\ kind = "sasl"
    /\ wbuf = <<>> /\ rbuf = <<>> /\ rpos = 0 /\ rbuf_size = 1
    /\ sasl \in [steps : {0}, need : 0..2]
    /\ data = <<>>
    /\ log = <<>>
    /\ res = NoCall
    /\ hist = [pc |-> "start", closed |-> FALSE, final |-> FALSE, rounds |-> 0]

\* open() up to its loop: the two first messages
HandshakeStart ==
    /\ hist.pc = "start"
    /\ \E r \in {Try(TSaslClientTransport_send_sasl_msg(
                         Self(Inner(<<>>, "none", FALSE)), START, sasl_mechanism),
                     LAMBDA s1 : TSaslClientTransport_send_sasl_msg(s1.t, OK, sasl_initial))} :
           /\ InstallQuiet(r.t)
           /\ res' = NoCall
           /\ hist' = [hist EXCEPT !.pc = "loop"]

\* one turn of the loop, once recv_sasl_msg has something to return or raise
HandshakeTurn ==
    /\ hist.pc = "loop"
    /\ data # <<>> \/ hist.closed
    /\ \E sched \in ShortReads :
           \E r \in {TSaslClientTransport_openTurn(Self(Inner(sched, "none", FALSE)))} :
               /\ InstallQuiet(r.t)
               /\ res' = Call("open", 0, <<>>, r)
               /\ hist' = [hist EXCEPT
                              !.pc = IF r.err # "none" THEN "raised"
                                     ELSE IF r.ret = <<"again">> THEN "loop" ELSE "done",
                              !.rounds = Min(@ + 1, MaxMsgs)]

\* the peer sends a message, when open has read the one before
HandshakePeerSends ==
    \E msg \in PeerMsgs :
        /\ data = <<>> /\ ~hist.final
        /\ data' = Msg(msg[1], msg[2])
        /\ hist' = [hist EXCEPT !.final = msg[1] # OK]
        /\ UNCHANGED <<kind, wbuf, rbuf, rpos, log, rbuf_size, sasl, res>>

\* the peer ends the stream
HandshakePeerCloses ==
    /\ ~hist.closed
    /\ hist' = [hist EXCEPT !.closed = TRUE, !.final = TRUE]
    /\ UNCHANGED <<kind, wbuf, rbuf, rpos, data, log, rbuf_size, sasl, res>>

NextHandshake ==
    HandshakeStart \/ HandshakeTurn \/ HandshakePeerSends \/ HandshakePeerCloses

SpecHandshake == InitHandshake /\ [][NextHandshake]_vars

SpecHandshakeFair ==
    SpecHandshake /\ WF_vars(HandshakeStart) /\ WF_vars(HandshakeTurn)

Terminated == hist.pc \in {"done", "raised"}

\* C20: once the peer has sent a message of a status other than OK, or the
\* inner stream has ended, open() terminates, returning or raising; and it
\* terminates no sooner: as long as the peer has only sent OK messages open()
\* is still in its loop, whatever the number of rounds.
C20_OpenTerminates ==
    /\ hist.final ~> Terminated
    /\ [](Terminated => hist.final)

\* open() ended after two rounds or more
C20_Witness ==
    /\ Terminated /\ hist.rounds >= 2 /\ ~hist.closed

\* open() still in its loop after MaxMsgs rounds of OK messages
C20_WitnessLooping ==
    /\ hist.pc = "loop" /\ hist.rounds = MaxMsgs /\ ~hist.final /\ data # <<>>

====
